---------------------------- MODULE Spec2Model ----------------------------
(***************************************************************************)
(* A model of src/main.rs of oandaohlc: one run of main() fetches the      *)
(* instrument catalog, filters it against the whitelist and, for every     *)
(* selected instrument and granularity, creates the table if needed, reads *)
(* the greatest stored timestamp, fetches one page of candles and appends  *)
(* the complete ones inside one SQLite transaction, followed by the        *)
(* retention DELETE.  The database file outlives the process, so the model *)
(* lets a new run start once a run has ended or panicked.                  *)
(*                                                                         *)
(* Strings are sequences of one-character strings, so that to_lowercase,   *)
(* trim, split, starts_with and parse::<f64> are computed, not assumed.    *)
(***************************************************************************)
EXTENDS Integers, Sequences, FiniteSets, TLC

----------------------------------------------------------------------------
(* Bounds of the model.                                                    *)

\* The retention limit: main.rs:9 sets 2000; the model keeps this many rows.
MAX_CANDLES == 2

\* The page size of a candle request: main.rs:90 asks for count=500; the
\* upstream of the model serves at most this many candles per response.
PageSize == 2

\* Complete candles carry the times 1..MaxTime (seconds); the candle that is
\* still in progress carries MaxTime + 1.
MaxTime == 3

----------------------------------------------------------------------------
(* Strings.                                                                *)

\* Option<T>: None, or Some(x) with the value at [1].
None == <<>>
Some(x) == <<x>>

UpperChars == <<"A","B","C","D","E","F","G","H","I","J","K","L","M",
                "N","O","P","Q","R","S","T","U","V","W","X","Y","Z">>
LowerChars == <<"a","b","c","d","e","f","g","h","i","j","k","l","m",
                "n","o","p","q","r","s","t","u","v","w","x","y","z">>

\* char::to_lowercase on the characters of the model (ASCII).
LowerChar(c) ==
    IF \E i \in 1..Len(UpperChars) : UpperChars[i] = c
    THEN LowerChars[CHOOSE i \in 1..Len(UpperChars) : UpperChars[i] = c]
    ELSE c

\* str::to_lowercase
to_lowercase(s) == [i \in 1..Len(s) |-> LowerChar(s[i])]

\* str::starts_with
starts_with(s, w) == Len(w) <= Len(s) /\ SubSeq(s, 1, Len(w)) = w

IsWhite(c) == c \in {" ", "\t", "\n"}

RECURSIVE trim_start(_)
trim_start(s) ==
    IF s # <<>> /\ IsWhite(Head(s)) THEN trim_start(Tail(s)) ELSE s

RECURSIVE trim_end(_)
trim_end(s) ==
    IF s # <<>> /\ IsWhite(s[Len(s)])
    THEN trim_end(SubSeq(s, 1, Len(s) - 1)) ELSE s

\* str::trim
trim(s) == trim_end(trim_start(s))

\* str::split(','): the items between the separators, empty items included;
\* an empty string splits into one empty item.
RECURSIVE split(_, _)
split(s, sep) ==
    IF \E i \in 1..Len(s) : s[i] = sep
    THEN LET i == CHOOSE j \in 1..Len(s) :
                     s[j] = sep /\ \A k \in 1..(j - 1) : s[k] # sep
         IN  <<SubSeq(s, 1, i - 1)>> \o split(SubSeq(s, i + 1, Len(s)), sep)
    ELSE <<s>>

----------------------------------------------------------------------------
(* The whitelist and the selection of instruments.                         *)

natgas_usd == <<"n","a","t","g","a","s","_","u","s","d">>
xau_usd    == <<"x","a","u","_","u","s","d">>
eur_usd    == <<"e","u","r","_","u","s","d">>
de30_eur   == <<"d","e","3","0","_","e","u","r">>
xcu_usd    == <<"x","c","u","_","u","s","d">>
xag_usd    == <<"x","a","g","_","u","s","d">>
sugar_usd  == <<"s","u","g","a","r","_","u","s","d">>
wtico_usd  == <<"w","t","i","c","o","_","u","s","d">>
wheat_usd  == <<"w","h","e","a","t","_","u","s","d">>
corn_usd   == <<"c","o","r","n","_","u","s","d">>
spx500_usd == <<"s","p","x","5","0","0","_","u","s","d">>
jp225_usd  == <<"j","p","2","2","5","_","u","s","d">>
cn50_usd   == <<"c","n","5","0","_","u","s","d">>
eu50_eur   == <<"e","u","5","0","_","e","u","r">>
fr40_eur   == <<"f","r","4","0","_","e","u","r">>
xau_xag    == <<"x","a","u","_","x","a","g">>

\* The literal list of main.rs:166-173 ("xau_usd" is listed twice).
DefaultWhitelist ==
    << natgas_usd, xau_usd, eur_usd, de30_eur, xcu_usd, xag_usd, xau_usd,
       sugar_usd, wtico_usd, wheat_usd, corn_usd, spx500_usd, jp225_usd,
       cn50_usd, eu50_eur, fr40_eur, xau_xag >>

\* main.rs:161-174: the --tickers override, or the default list.
Whitelist(tickers) ==
    IF tickers # None
    THEN LET items == split(tickers[1], ",")
         IN  [i \in 1..Len(items) |-> to_lowercase(trim(items[i]))]
    ELSE DefaultWhitelist

\* The predicate of the filter of main.rs:182.
MatchesExact(inst, whitelist) ==
    \E i \in 1..Len(whitelist) : to_lowercase(inst) = whitelist[i]

Matches(inst, whitelist) ==
    \E i \in 1..Len(whitelist) : starts_with(to_lowercase(inst), whitelist[i])

\* all_instruments.iter().filter(...): the matching instruments, in the
\* order of the catalog.
RECURSIVE Selected(_, _)
Selected(all_instruments, whitelist) ==
    IF all_instruments = <<>> THEN <<>>
    ELSE (IF Matches(Head(all_instruments), whitelist)
          THEN <<Head(all_instruments)>> ELSE <<>>)
         \o Selected(Tail(all_instruments), whitelist)

\* main.rs:184: format!("{}_{}", instrument.to_lowercase(), granularity)
table_name(instrument, granularity) ==
    to_lowercase(instrument) \o <<"_">> \o granularity


----------------------------------------------------------------------------
(* Candles, prices and rows.                                               *)

Digits == <<"0","1","2","3","4","5","6","7","8","9">>

IsDigit(c) == \E i \in 1..Len(Digits) : Digits[i] = c

DigitVal(c) == (CHOOSE i \in 1..Len(Digits) : Digits[i] = c) - 1

RECURSIVE DigitsVal(_)
DigitsVal(s) ==
    IF s = <<>> THEN 0
    ELSE 10 * DigitsVal(SubSeq(s, 1, Len(s) - 1)) + DigitVal(s[Len(s)])

\* str::parse::<f64> on the decimal strings of the model: digits with at most
\* one '.', at least one digit; anything else is Err(ParseFloatError).  The
\* value is kept in hundredths (the inputs have at most two decimals).
ParseF64(s) ==
    LET dots == {i \in 1..Len(s) : s[i] = "."}
        wellFormed == /\ \A i \in 1..Len(s) : IsDigit(s[i]) \/ s[i] = "."
                      /\ Cardinality(dots) <= 1
                      /\ \E i \in 1..Len(s) : IsDigit(s[i])
    IN  IF ~wellFormed THEN [ok |-> FALSE]
        ELSE LET d    == IF dots = {} THEN Len(s) + 1
                         ELSE CHOOSE i \in dots : TRUE
                 int  == SubSeq(s, 1, d - 1)
                 frac == SubSeq(s, d + 1, Len(s))
                 f2   == SubSeq(frac \o <<"0", "0">>, 1, 2)
             IN  [ok |-> TRUE, val |-> 100 * DigitsVal(int) + DigitsVal(f2)]

\* A variant of ParsedMid that stores 0 for a string that does not parse
\* (unwrap_or(0.0) in the place of unwrap()).
ParsedMidOrZero(mid) ==
    LET v(s) == IF ParseF64(s).ok THEN ParseF64(s).val ELSE 0
    IN  [ok |-> TRUE, open |-> v(mid.o), high |-> v(mid.h),
         low |-> v(mid.l), close |-> v(mid.c)]

\* main.rs:127-130: the four parse().unwrap() of one INSERT, in order; the
\* first Err panics.
ParsedMid(mid) ==
    IF /\ ParseF64(mid.o).ok /\ ParseF64(mid.h).ok
       /\ ParseF64(mid.l).ok /\ ParseF64(mid.c).ok
    THEN [ok |-> TRUE, open |-> ParseF64(mid.o).val, high |-> ParseF64(mid.h).val,
          low |-> ParseF64(mid.l).val, close |-> ParseF64(mid.c).val]
    ELSE [ok |-> FALSE]

\* The row that main.rs:120-133 inserts for a candle whose prices parse.
RowOf(candle) ==
    LET p == ParsedMid(candle.mid)
    IN  [timestamp |-> candle.time, open |-> p.open, high |-> p.high,
         low |-> p.low, close |-> p.close, volume |-> candle.volume]

GoodMid == [o |-> <<"1",".","5">>, h |-> <<"2">>, l |-> <<"1">>,
            c |-> <<"1",".","2","5">>]

\* One price string that is no number, in each of the four places.
BadMids ==
    { [GoodMid EXCEPT !.o = <<"x">>], [GoodMid EXCEPT !.h = <<>>],
      [GoodMid EXCEPT !.l = <<"1",",","5">>],
      [GoodMid EXCEPT !.c = <<"1",".","2",".","5">>] }

\* The candles the upstream of the model can serve: a complete candle at
\* each time 1..MaxTime, the candle in progress at MaxTime + 1 (with prices
\* that parse, and with an open that does not), and a complete candle at
\* time 1 whose close does not parse.
CandleInputs ==
    { [time |-> t, complete |-> TRUE, volume |-> 10 * t, mid |-> GoodMid] :
        t \in 1..MaxTime }
    \cup { [time |-> MaxTime + 1, complete |-> FALSE, volume |-> 5, mid |-> m] :
             m \in {GoodMid, [GoodMid EXCEPT !.o = <<"x">>]} }
    \cup { [time |-> 1, complete |-> TRUE, volume |-> 10,
            mid |-> [GoodMid EXCEPT !.c = <<"1",".","2",".","5">>]] }

\* The candle lists a response can hold.
Pages == UNION { [1..n -> CandleInputs] : n \in 0..PageSize }

----------------------------------------------------------------------------
(* The upstream catalog and the command lines of the model.                *)

EUR_USD       == <<"E","U","R","_","U","S","D">>
EUR_USD_SHORT == <<"E","U","R","_","U","S","D","_","S","H","O","R","T">>
GBP_USD       == <<"G","B","P","_","U","S","D">>

XAU_USD       == <<"X","A","U","_","U","S","D">>

\* The environment of the process: OANDA_ACCESS_TOKEN and OANDA_ACCOUNT_ID,
\* each set or not.
Env(tok, acc) == [OANDA_ACCESS_TOKEN |-> tok, OANDA_ACCOUNT_ID |-> acc]

\* The installations of the model: the instrument names that
\* GET /accounts/{id}/instruments returns, the environment, and the command
\* line: --tickers, --oanda-access-token, --oanda-account-id (None when
\* absent) and --granularity.
ArgInputs ==
    { [catalog |-> <<EUR_USD, EUR_USD_SHORT, GBP_USD>>,
       tickers |-> Some(eur_usd), granularity |-> <<<<"D">>>>,
       oanda_access_token |-> Some("flag-token"),
       oanda_account_id |-> None,
       env |-> Env(Some("env-token"), Some("env-account"))],
      [catalog |-> <<EUR_USD, GBP_USD>>,
       tickers |-> Some(<<" ","G","B","P","_","u","s","d"," ",",","x","a","u">>),
       granularity |-> <<<<"D">>, <<"W">>>>,
       oanda_access_token |-> None,
       oanda_account_id |-> Some("flag-account"),
       env |-> Env(Some("env-token"), Some("env-account"))],
      [catalog |-> <<GBP_USD, XAU_USD>>,
       tickers |-> None, granularity |-> <<<<"M">>>>,
       oanda_access_token |-> None,
       oanda_account_id |-> None,
       env |-> Env(Some("env-token"), Some("env-account"))],
      [catalog |-> <<EUR_USD, EUR_USD_SHORT, GBP_USD>>,
       tickers |-> Some(<<"u","s","d">>),
       granularity |-> <<<<"D">>, <<"W">>, <<"M">>>>,
       oanda_access_token |-> Some("flag-token"),
       oanda_account_id |-> Some("flag-account"),
       env |-> Env(None, None)],
      [catalog |-> <<GBP_USD>>,
       tickers |-> Some(<<"e","u","r","_","u","s","d",",">>),
       granularity |-> <<<<"W">>>>,
       oanda_access_token |-> Some("flag-token"),
       oanda_account_id |-> Some("flag-account"),
       env |-> Env(Some("env-token"), Some("env-account"))],
      \* a granularity given twice: --granularity D D
      [catalog |-> <<EUR_USD>>,
       tickers |-> Some(eur_usd), granularity |-> <<<<"D">>, <<"D">>>>,
       oanda_access_token |-> Some("flag-token"),
       oanda_account_id |-> Some("flag-account"),
       env |-> Env(None, None)],
      \* installations without a credential
      [catalog |-> <<GBP_USD>>,
       tickers |-> None, granularity |-> <<<<"D">>>>,
       oanda_access_token |-> None,
       oanda_account_id |-> Some("flag-account"),
       env |-> Env(None, Some("env-account"))],
      [catalog |-> <<GBP_USD>>,
       tickers |-> None, granularity |-> <<<<"D">>>>,
       oanda_access_token |-> Some("flag-token"),
       oanda_account_id |-> None,
       env |-> Env(Some("env-token"), None)],
      [catalog |-> <<GBP_USD>>,
       tickers |-> None, granularity |-> <<<<"D">>>>,
       oanda_access_token |-> None,
       oanda_account_id |-> None,
       env |-> Env(None, None)] }

----------------------------------------------------------------------------
(* The state.                                                              *)

VARIABLES
    args,            \* the installation: upstream catalog, environment and
                     \* command line
    pc,              \* where main() is: "idle", "instruments",
                     \* "await_instruments", "setup", "lookup", "fetch",
                     \* "await_candles", "begin", "insert", "trim", "commit",
                     \* "done", "aborted"
    token,           \* the access token in use (an Option until resolved)
    account_id,      \* the account identifier in use
    http,            \* the HTTP requests sent and not yet answered
    instruments,     \* the filtered instruments the outer loop runs over
    i,               \* the outer loop: index into instruments
    j,               \* the inner loop: index into args.granularity
    lookup,          \* the Result of query_row before .ok()
    last_timestamp,  \* Option<DateTime>: None or the resume point
    req,             \* the candle request fetch_candles issued for the pair
    resp,            \* candles_resp.candles
    k,               \* insert_candles: index of the next candle of the loop
    tx,              \* the table as the open transaction sees it, or None
    tables,          \* the committed database: table name -> rows in rowid order
    out,             \* the lines printed by the run
    reqs,            \* the tables for which the run issued a candle request
    err,             \* the panic that ended the run, or ""
    snapshot         \* the database as a run found it, when that run follows
                     \* a completed run that left every table in step with
                     \* the upstream; None otherwise

vars == << args, pc, token, account_id, http, instruments, i, j, lookup, last_timestamp, req, resp, k,
           tx, tables, out, reqs, err, snapshot >>

pairVars == << lookup, last_timestamp, req, resp, k, tx >>

Max(S) == CHOOSE x \in S : \A y \in S : y <= x

Min2(a, b) == IF a <= b THEN a ELSE b

Timestamps(rows) == { rows[n].timestamp : n \in 1..Len(rows) }

\* The table of the pair the loops are at.
instrument == instruments[i]
granularity == args.granularity[j]
table == table_name(instrument, granularity)

\* Every table of the run is in step with the upstream: it holds, once each,
\* the newest complete candles of the upstream, as many as the retention
\* limit allows, so the upstream has nothing new for it.
InStep ==
    LET times == { c.time : c \in { d \in CandleInputs : d.complete } }
        newest == { t \in times :
                      Cardinality({ u \in times : u > t }) < MAX_CANDLES }
    IN  \A a \in 1..Len(instruments), b \in 1..Len(args.granularity) :
            LET t == table_name(instruments[a], args.granularity[b])
            IN  /\ t \in DOMAIN tables
                /\ Timestamps(tables[t]) = newest
                /\ Len(tables[t]) = Cardinality(newest)

Init ==
    /\ args \in ArgInputs
    /\ pc = "idle"
    /\ token = None
    /\ account_id = None
    /\ http = <<>>
    /\ instruments = <<>>
    /\ i = 0
    /\ j = 0
    /\ lookup = None
    /\ last_timestamp = None
    /\ req = None
    /\ resp = <<>>
    /\ k = 0
    /\ tx = None
    /\ tables = << >>
    /\ out = <<>>
    /\ reqs = <<>>
    /\ err = ""
    /\ snapshot = None

----------------------------------------------------------------------------
(* Steps of main().                                                        *)

\* A panic (an unwrap() or expect() on Err): the process ends; the open
\* transaction, if any, is dropped, and so is every pending request.
Panic(e) ==
    /\ pc' = "aborted"
    /\ err' = e
    /\ http' = <<>>
    /\ lookup' = None
    /\ last_timestamp' = None
    /\ req' = None
    /\ resp' = <<>>
    /\ k' = 0
    /\ tx' = None

\* The loops of main.rs:182-183 move to pair (a, b), or end and main.rs:201
\* prints the completion line.
Goto(insts, a, b, lines) ==
    /\ lookup' = None
    /\ last_timestamp' = None
    /\ req' = None
    /\ resp' = <<>>
    /\ k' = 0
    /\ tx' = None
    /\ IF a <= Len(insts) /\ b <= Len(args.granularity)
       THEN /\ pc' = "setup"
            /\ i' = a
            /\ j' = b
            /\ out' = lines
       ELSE /\ pc' = "done"
            /\ i' = 0
            /\ j' = 0
            /\ out' = Append(lines, [line |-> "Sync complete!", table |-> <<>>])

\* A variant of Credential that prefers the environment to the flag.
CredentialEnvFirst(flag, var) == IF var # None THEN var ELSE flag

\* main.rs:153-156: flag.unwrap_or_else(|| env::var(NAME).expect(..)): the
\* flag when given, else the environment variable; None when expect() panics.
Credential(flag, var) == IF flag # None THEN flag ELSE var

\* The process is started (again): main.rs:151-176.  The token is resolved
\* first (main.rs:153), then the account identifier (main.rs:155).
StartRun ==
    /\ pc \in {"idle", "done", "aborted"}
    /\ snapshot' = IF pc = "done" /\ InStep THEN Some(tables) ELSE None
    /\ instruments' = <<>>
    /\ i' = 0
    /\ j' = 0
    /\ out' = <<>>
    /\ reqs' = <<>>
    /\ token' = Credential(args.oanda_access_token, args.env.OANDA_ACCESS_TOKEN)
    /\ IF token' = None
       THEN /\ Panic("OANDA_ACCESS_TOKEN not set")
            /\ account_id' = None
       ELSE /\ account_id' = Credential(args.oanda_account_id,
                                       args.env.OANDA_ACCOUNT_ID)
            /\ IF account_id' = None
               THEN Panic("OANDA_ACCOUNT_ID not set")
               ELSE /\ pc' = "instruments"
                    /\ err' = ""
                    /\ UNCHANGED << pairVars, http >>
    /\ UNCHANGED << args, tables >>

\* main.rs:74-78: the request fetch_instruments sends.
fetch_instruments(tok, acc) ==
    [get |-> <<"accounts", acc, "instruments">>, bearer_auth |-> tok]

\* main.rs:177: the catalog request goes out and main() awaits its answer.
SendInstruments ==
    /\ pc = "instruments"
    /\ http' = Append(http, fetch_instruments(token[1], account_id[1]))
    /\ pc' = "await_instruments"
    /\ UNCHANGED << args, token, account_id, instruments, i, j, pairVars, tables,
                    out, reqs, err, snapshot >>

\* main.rs:177-182: the catalog arrives and the database opens; the loops
\* start at the first filtered instrument and the first granularity.
FetchInstruments ==
    /\ pc = "await_instruments"
    /\ http' = <<>>
    /\ instruments' = Selected(args.catalog, Whitelist(args.tickers))
    /\ Goto(instruments', 1, 1, out)
    /\ UNCHANGED << args, token, account_id, tables, reqs, err, snapshot >>

\* main.rs:177 or main.rs:180: the catalog request or Connection::open fails.
FetchInstrumentsFail ==
    /\ pc = "await_instruments"
    /\ \E e \in {"fetch_instruments", "Connection::open"} : Panic(e)
    /\ UNCHANGED << args, token, account_id, instruments, i, j, tables, out, reqs, snapshot >>

\* A variant of setup_table without IF NOT EXISTS semantics: the table is
\* made anew each time.
setup_tableRecreate ==
    /\ pc = "setup"
    /\ tables' = IF table \in DOMAIN tables
                 THEN [tables EXCEPT ![table] = <<>>]
                 ELSE tables @@ (table :> <<>>)
    /\ pc' = "lookup"
    /\ UNCHANGED << args, token, account_id, http, instruments, i, j, pairVars,
                    out, reqs, err, snapshot >>

\* main.rs:99-112: CREATE TABLE IF NOT EXISTS.
setup_table ==
    /\ pc = "setup"
    /\ tables' = IF table \in DOMAIN tables THEN tables
                 ELSE tables @@ (table :> <<>>)
    /\ pc' = "lookup"
    /\ UNCHANGED << args, token, account_id, http, instruments, i, j, pairVars, out, reqs, err, snapshot >>

setup_tableFail ==
    /\ pc = "setup"
    /\ Panic("setup_table")
    /\ UNCHANGED << args, token, account_id, instruments, i, j, tables, out, reqs, snapshot >>


\* A variant of QueryRow that orders by timestamp ASC: the least timestamp.
QueryRowAsc(rows, fails) ==
    IF fails THEN [ok |-> FALSE, e |-> "SqliteFailure", ts |-> 0]
    ELSE IF rows = <<>>
    THEN [ok |-> FALSE, e |-> "QueryReturnedNoRows", ts |-> 0]
    ELSE [ok |-> TRUE, e |-> "",
          ts |-> CHOOSE x \in Timestamps(rows) :
                     \A y \in Timestamps(rows) : x <= y]

\* main.rs:187-190: SELECT timestamp ... ORDER BY timestamp DESC LIMIT 1 as
\* query_row returns it: the first row, Err(QueryReturnedNoRows) for an empty
\* table, or the error of a statement that fails.
QueryRow(rows, fails) ==
    IF fails THEN [ok |-> FALSE, e |-> "SqliteFailure", ts |-> 0]
    ELSE IF rows = <<>>
    THEN [ok |-> FALSE, e |-> "QueryReturnedNoRows", ts |-> 0]
    ELSE [ok |-> TRUE, e |-> "", ts |-> Max(Timestamps(rows))]

\* main.rs:191: Result::ok()
ok(result) == IF result.ok THEN Some(result.ts) ELSE None

\* main.rs:187-191: the resume point of the pair.
Lookup ==
    /\ pc = "lookup"
    /\ \E fails \in BOOLEAN :
          /\ lookup' = Some(QueryRow(tables[table], fails))
          /\ last_timestamp' = ok(lookup'[1])
    /\ pc' = "fetch"
    /\ UNCHANGED << args, token, account_id, http, instruments, i, j, req, resp, k, tx, tables, out,
                    reqs, err, snapshot >>

\* A variant of fetch_candles without main.rs:92-94: the lower bound is
\* never sent.
fetch_candlesNoFrom(tok, inst, gran, from) ==
    [bearer_auth |-> tok, instrument |-> inst, price |-> "M",
     granularity |-> gran, count |-> PageSize, from |-> None]

\* main.rs:87-94: the request fetch_candles builds.
fetch_candles(tok, inst, gran, from) ==
    [bearer_auth |-> tok, instrument |-> inst, price |-> "M",
     granularity |-> gran, count |-> PageSize, from |-> from]

\* A variant of SendCandles that opens the transaction of the pair before
\* it awaits the answer.
SendCandlesInTx ==
    /\ pc = "fetch"
    /\ req' = Some(fetch_candles(token[1], instrument, granularity,
                                 last_timestamp))
    /\ http' = Append(http, req'[1])
    /\ reqs' = Append(reqs, table)
    /\ tx' = Some(tables[table])
    /\ pc' = "await_candles"
    /\ UNCHANGED << args, token, account_id, instruments, i, j, lookup,
                    last_timestamp, resp, k, tables, out, err, snapshot >>

\* main.rs:193, 87-96: the candle request of the pair goes out and main()
\* awaits its answer.
SendCandles ==
    /\ pc = "fetch"
    /\ req' = Some(fetch_candles(token[1], instrument, granularity,
                                 last_timestamp))
    /\ http' = Append(http, req'[1])
    /\ reqs' = Append(reqs, table)
    /\ pc' = "await_candles"
    /\ UNCHANGED << args, token, account_id, instruments, i, j, lookup,
                    last_timestamp, resp, k, tx, tables, out, err, snapshot >>

\* A variant of Fetch that drains the upstream: after a full page it asks
\* for the next one before it goes on to the append.
FetchDrain ==
    /\ pc = "await_candles"
    /\ http' = <<>>
    /\ \E page \in Pages :
          /\ resp' = resp \o page
          /\ pc' = IF Len(page) = PageSize /\ Len(resp) < PageSize
                   THEN "fetch" ELSE "begin"
    /\ out' = Append(out, [line |-> "Fetched", table |-> table])
    /\ UNCHANGED << args, token, account_id, instruments, i, j, lookup,
                    last_timestamp, req, k, tx, tables, reqs, err, snapshot >>

\* main.rs:193-195: the page arrives and the "Fetched ... candles for ..."
\* line is printed; the count it shows is Len(resp).  The upstream is not
\* bound by the request: it may serve any page of at most count candles.
Fetch ==
    /\ pc = "await_candles"
    /\ http' = <<>>
    /\ \E page \in Pages : resp' = page
    /\ out' = Append(out, [line |-> "Fetched", table |-> table])
    /\ pc' = "begin"
    /\ UNCHANGED << args, token, account_id, instruments, i, j, lookup,
                    last_timestamp, req, k, tx, tables, reqs, err, snapshot >>

\* A variant of FetchFail: the failed pair is skipped and the run goes on.
FetchFailSkip ==
    /\ pc = "await_candles"
    /\ http' = <<>>
    /\ err' = "fetch_candles"
    /\ IF j < Len(args.granularity)
       THEN Goto(instruments, i, j + 1, out)
       ELSE Goto(instruments, i + 1, 1, out)
    /\ UNCHANGED << args, token, account_id, instruments, tables, reqs,
                    snapshot >>

\* main.rs:193: the request or the decoding of its answer fails.
FetchFail ==
    /\ pc = "await_candles"
    /\ Panic("fetch_candles")
    /\ UNCHANGED << args, token, account_id, instruments, i, j, tables, out,
                    reqs, snapshot >>

\* The committed database when a transaction was dropped without rollback
\* (its statements already applied).
AfterDropApplied(committed, name, work) == [committed EXCEPT ![name] = work]

\* The committed database after the Transaction of main.rs:116 is dropped
\* by a panic before main.rs:145: the transaction is rolled back.
AfterDrop(committed, name, work) == committed

\* main.rs:116: conn.transaction()
BeginTx ==
    /\ pc = "begin"
    /\ tx' = Some(tables[table])
    /\ k' = 1
    /\ pc' = IF resp = <<>> THEN "trim" ELSE "insert"
    /\ UNCHANGED << args, token, account_id, http, instruments, i, j, lookup, last_timestamp, req, resp,
                    tables, out, reqs, err, snapshot >>

BeginTxFail ==
    /\ pc = "begin"
    /\ Panic("transaction")
    /\ UNCHANGED << args, token, account_id, instruments, i, j, tables, out, reqs, snapshot >>

\* A variant of ShouldInsert without the test of main.rs:119.
ShouldInsertAny(candle) == TRUE

\* main.rs:119: if candle.complete
ShouldInsert(candle) == candle.complete

\* main.rs:118-135: one iteration of the loop over the candles.
InsertCandle ==
    /\ pc = "insert"
    /\ LET candle == resp[k]
       IN  IF ~ShouldInsert(candle)
           THEN /\ k' = k + 1
                /\ pc' = IF k = Len(resp) THEN "trim" ELSE "insert"
                /\ UNCHANGED << tx, tables, err, lookup, last_timestamp, req,
                                resp, http >>
           ELSE IF ~ParsedMid(candle.mid).ok
           THEN /\ Panic("ParseFloatError")
                /\ tables' = AfterDrop(tables, table, tx[1])
           ELSE /\ tx' = Some(Append(tx[1], RowOf(candle)))
                /\ k' = k + 1
                /\ pc' = IF k = Len(resp) THEN "trim" ELSE "insert"
                /\ UNCHANGED << tables, err, lookup, last_timestamp, req, resp,
                                http >>
    /\ UNCHANGED << args, token, account_id, instruments, i, j, out, reqs, snapshot >>

\* main.rs:133: the INSERT fails.
InsertCandleFail ==
    /\ pc = "insert"
    /\ ShouldInsert(resp[k])
    /\ ParsedMid(resp[k].mid).ok
    /\ Panic("insert")
    /\ tables' = AfterDrop(tables, table, tx[1])
    /\ UNCHANGED << args, token, account_id, instruments, i, j, out, reqs, snapshot >>


\* The rows of the given places, in rowid order.
RECURSIVE RowsAt(_, _, _)
RowsAt(rows, keep, n) ==
    IF n > Len(rows) THEN <<>>
    ELSE (IF n \in keep THEN <<rows[n]>> ELSE <<>>) \o RowsAt(rows, keep, n + 1)

\* A variant of TrimDeletes with OFFSET 0: it deletes every row.
TrimDeletesNoOffset(rows) == { 1..Len(rows) }

\* A variant of TrimDeletes that orders by timestamp ASC: it deletes all but
\* the oldest MAX_CANDLES rows.
TrimDeletesAsc(rows) ==
    { D \in SUBSET (1..Len(rows)) :
        /\ Cardinality(D) = IF Len(rows) > MAX_CANDLES
                            THEN Len(rows) - MAX_CANDLES ELSE 0
        /\ \A d \in D, r \in (1..Len(rows)) \ D :
               rows[d].timestamp >= rows[r].timestamp }

\* main.rs:139: the rowids SELECT rowid ... ORDER BY timestamp DESC LIMIT -1
\* OFFSET MAX_CANDLES can return: every row after the first MAX_CANDLES of
\* the descending order.  SQLite leaves the order of rows with equal
\* timestamps open, so each consistent choice is a possible result.
TrimDeletes(rows) ==
    { D \in SUBSET (1..Len(rows)) :
        /\ Cardinality(D) = IF Len(rows) > MAX_CANDLES
                            THEN Len(rows) - MAX_CANDLES ELSE 0
        /\ \A d \in D, r \in (1..Len(rows)) \ D :
               rows[d].timestamp <= rows[r].timestamp }

\* main.rs:137-143: the retention DELETE.
Trim ==
    /\ pc = "trim"
    /\ \E D \in TrimDeletes(tx[1]) :
          tx' = Some(RowsAt(tx[1], (1..Len(tx[1])) \ D, 1))
    /\ pc' = "commit"
    /\ UNCHANGED << args, token, account_id, http, instruments, i, j, lookup, last_timestamp, req, resp,
                    k, tables, out, reqs, err, snapshot >>

TrimFail ==
    /\ pc = "trim"
    /\ Panic("delete")
    /\ tables' = AfterDrop(tables, table, tx[1])
    /\ UNCHANGED << args, token, account_id, instruments, i, j, out, reqs, snapshot >>

\* A variant of Commit that writes to the table of the instrument's first
\* granularity, whatever the granularity of the pair.
CommitFirstGranularity ==
    /\ pc = "commit"
    /\ tables' = [tables EXCEPT
                    ![table_name(instrument, args.granularity[1])] = tx[1]]
    /\ IF j < Len(args.granularity)
       THEN Goto(instruments, i, j + 1, out)
       ELSE Goto(instruments, i + 1, 1, out)
    /\ UNCHANGED << args, token, account_id, http, instruments, reqs, err,
                    snapshot >>

\* main.rs:145: tx.commit(), and the loops move on (main.rs:182-183, 201).
Commit ==
    /\ pc = "commit"
    /\ tables' = [tables EXCEPT ![table] = tx[1]]
    /\ IF j < Len(args.granularity)
       THEN Goto(instruments, i, j + 1, out)
       ELSE Goto(instruments, i + 1, 1, out)
    /\ UNCHANGED << args, token, account_id, http, instruments, reqs, err,
                    snapshot >>

\* main.rs:145: the commit fails; nothing of the transaction is kept.
CommitFail ==
    /\ pc = "commit"
    /\ Panic("commit")
    /\ tables' = AfterDrop(tables, table, tx[1])
    /\ UNCHANGED << args, token, account_id, instruments, i, j, out, reqs, snapshot >>

Next ==
    \/ StartRun
    \/ SendInstruments
    \/ FetchInstruments
    \/ FetchInstrumentsFail
    \/ setup_table
    \/ setup_tableFail
    \/ Lookup
    \/ SendCandles
    \/ Fetch
    \/ FetchFail
    \/ BeginTx
    \/ BeginTxFail
    \/ InsertCandle
    \/ InsertCandleFail
    \/ Trim
    \/ TrimFail
    \/ Commit
    \/ CommitFail

Spec == Init /\ [][Next]_vars

----------------------------------------------------------------------------
(* Vocabulary of the properties.                                           *)

Range(f) == { f[n] : n \in DOMAIN f }

\* How many rows of a table equal r.
Count(rows, r) == Cardinality({ n \in 1..Len(rows) : rows[n] = r })

\* A commit step: the transaction of the pair at hand becomes durable.
CommitStep == pc = "commit" /\ pc' \in {"setup", "done"}

\* The rows a successful insert loop adds for a response: one per complete
\* candle, in the order of the response.
RECURSIVE CompleteRows(_)
CompleteRows(candles) ==
    IF candles = <<>> THEN <<>>
    ELSE (IF Head(candles).complete THEN <<RowOf(Head(candles))>> ELSE <<>>)
         \o CompleteRows(Tail(candles))

\* The table of the pair at hand before the call, followed by the new rows.
BeforeTrim == tables[table] \o CompleteRows(resp)

----------------------------------------------------------------------------
(* C1: after every committed append the table holds at most MAX_CANDLES    *)
(* rows; they are min(n, MAX_CANDLES) of the n rows made of the rows       *)
(* before the call and the rows inserted, none of them invented, and every *)
(* row that was removed is no newer than every row that was kept.          *)
C1_RetentionBound ==
    /\ [](\A t \in DOMAIN tables : Len(tables[t]) <= MAX_CANDLES)
    /\ [][ CommitStep =>
             LET all  == BeforeTrim
                 kept == tables'[table]
             IN  /\ Len(kept) = Min2(Len(all), MAX_CANDLES)
                 /\ \A r \in Range(kept) : Count(kept, r) <= Count(all, r)
                 /\ \A r \in Range(all) :
                        Count(kept, r) < Count(all, r) =>
                            \A q \in Range(kept) : r.timestamp <= q.timestamp
         ]_vars

\* C1's case: a trim is about to be committed that removed the oldest of
\* three rows with distinct timestamps.
C1_Witness ==
    /\ pc = "commit"
    /\ Len(BeforeTrim) = MAX_CANDLES + 1
    /\ Cardinality(Timestamps(BeforeTrim)) = Len(BeforeTrim)
    /\ CompleteRows(resp) # <<>>
    /\ Len(tx[1]) = MAX_CANDLES

(* C2: when a pair is synced and the greatest stored timestamp of its      *)
(* table is T, the request carries T as its lower bound, the append inserts*)
(* no row with a timestamp <= T, and a response whose candles are all at   *)
(* or before T leaves the table with the rows it had (rowids aside).  It   *)
(* is stated for the syncs                                                 *)
(* whose lookup query returned a row, the case most favourable to it (a    *)
(* failed query sends the request without a lower bound, see C10).         *)
C2_ResumeCorrectness ==
    [][ (CommitStep /\ tables[table] # <<>> /\ lookup[1].ok) =>
          LET T == Max(Timestamps(tables[table]))
              stamps(rows) == [n \in 1..Len(rows) |-> rows[n].timestamp]
          IN  /\ req[1].from = Some(T)
              /\ \A ts \in 1..T :
                     Count(stamps(tables'[table]), ts)
                         <= Count(stamps(tables[table]), ts)
              /\ (\A n \in 1..Len(resp) : resp[n].time <= T)
                     => \A r \in Range(tables'[table]) \cup Range(tables[table]) :
                            Count(tables'[table], r) = Count(tables[table], r)
      ]_vars

(* C3: no table ever holds two rows with the same timestamp.               *)
C3_NoDuplicateTimestamps ==
    \A t \in DOMAIN tables :
        \A a, b \in 1..Len(tables[t]) :
            a # b => tables[t][a].timestamp # tables[t][b].timestamp

(* C4: a run that follows a completed run, with an upstream that holds no  *)
(* new data (every table already stores the newest complete candles of the *)
(* upstream), ends with every table holding the rows it held before, each  *)
(* as many times as before (rowids aside).                                 *)
C4_Idempotence ==
    (pc = "done" /\ snapshot # None) =>
        /\ DOMAIN tables = DOMAIN snapshot[1]
        /\ \A t \in DOMAIN tables :
               \A r \in Range(tables[t]) \cup Range(snapshot[1][t]) :
                   Count(tables[t], r) = Count(snapshot[1][t], r)

(* C5: when the insert loop of an append has run over a response of N      *)
(* candles, K of them incomplete, the transaction holds the rows of the    *)
(* table followed by exactly N - K new rows, the m-th of which carries the *)
(* time of the m-th complete candle; and no row of any table stems from an *)
(* incomplete candle (in the model only those carry MaxTime + 1).          *)
C5_CompletenessFilter ==
    /\ pc = "trim" =>
         LET pre == tables[table]
             N   == Len(resp)
             K   == Cardinality({ n \in 1..N : ~resp[n].complete })
             new == SubSeq(tx[1], Len(pre) + 1, Len(tx[1]))
             nth(m) == CHOOSE n \in 1..N :
                         /\ resp[n].complete
                         /\ Cardinality({ a \in 1..n : resp[a].complete }) = m
         IN  /\ Len(tx[1]) = Len(pre) + N - K
             /\ SubSeq(tx[1], 1, Len(pre)) = pre
             /\ \A m \in 1..Len(new) : new[m].timestamp = resp[nth(m)].time
    /\ \A t \in DOMAIN tables :
           \A n \in 1..Len(tables[t]) : tables[t][n].timestamp <= MaxTime
    /\ tx # None => \A n \in 1..Len(tx[1]) : tx[1][n].timestamp <= MaxTime

\* C5's case: the loop has run over a page with one complete and one
\* incomplete candle.
C5_Witness ==
    /\ pc = "trim"
    /\ Len(resp) = 2
    /\ \E n \in 1..2 : resp[n].complete
    /\ \E n \in 1..2 : ~resp[n].complete /\ ParsedMid(resp[n].mid).ok
    /\ Len(tx[1]) = Len(tables[table]) + 1


(* C6: a failure after the transaction is opened (an INSERT, the retention *)
(* DELETE or the commit) leaves every table with the rows it had before    *)
(* the call; no transaction outlives its call; and the rows of a table     *)
(* change only when a commit installs what the inserts followed by the     *)
(* trim produced, so the inserts are never durable without the trim nor    *)
(* the trim without the inserts.                                           *)
C6_Atomicity ==
    /\ [](pc \notin {"insert", "trim", "commit"} => tx = None)
    /\ [][ (pc \in {"insert", "trim", "commit"} /\ pc' = "aborted")
               => tables' = tables ]_vars
    /\ [][ \A t \in DOMAIN tables :
               tables'[t] # tables[t] =>
                   /\ CommitStep
                   /\ t = table
                   /\ \E D \in SUBSET (1..Len(BeforeTrim)) :
                          /\ Cardinality(D) = Len(BeforeTrim) - Len(tables'[t])
                          /\ tables'[t] = RowsAt(BeforeTrim,
                                                 (1..Len(BeforeTrim)) \ D, 1)
                   /\ Len(tables'[t]) = Min2(Len(BeforeTrim), MAX_CANDLES)
         ]_vars

\* C6's case: the retention DELETE failed in a sync whose table had rows.
C6_Witness ==
    /\ pc = "aborted"
    /\ err = "delete"
    /\ tables[table] # <<>>

\* The run has filtered the catalog (main.rs:182).
Filtered == pc = "done" \/ i >= 1

(* C7: the instruments of a run are exactly the catalog instruments whose  *)
(* lowercased name has a whitelist entry as a prefix, in catalog order;    *)
(* the entries of an override are its comma-separated items, trimmed and   *)
(* lowercased; and every table and every candle request belongs to such an *)
(* instrument.  Whitelist eur_usd over EUR_USD, EUR_USD_SHORT, GBP_USD     *)
(* selects EUR_USD and EUR_USD_SHORT.                                      *)
C7_WhitelistFiltering ==
    LET wl == Whitelist(args.tickers)
        passes(x) ==
            LET lx == [a \in 1..Len(x) |-> LowerChar(x[a])]
            IN  \E n \in 1..Len(wl) :
                    /\ Len(wl[n]) <= Len(lx)
                    /\ \A a \in 1..Len(wl[n]) : lx[a] = wl[n][a]
        chosen == { n \in 1..Len(args.catalog) : passes(args.catalog[n]) }
        commas(str) == Cardinality({ n \in 1..Len(str) : str[n] = "," })
    IN  /\ args.tickers # None =>
              /\ Len(wl) = commas(args.tickers[1]) + 1
              /\ \A n \in 1..Len(wl) :
                     /\ \A a \in 1..Len(wl[n]) :
                            wl[n][a] # "," /\ wl[n][a] \notin Range(UpperChars)
                     /\ wl[n] # <<>> =>
                            ~IsWhite(wl[n][1]) /\ ~IsWhite(wl[n][Len(wl[n])])
        /\ Filtered =>
              /\ Len(instruments) = Cardinality(chosen)
              /\ \A n \in 1..Len(instruments) :
                     \E c \in chosen :
                        /\ instruments[n] = args.catalog[c]
                        /\ Cardinality({ d \in chosen : d <= c }) = n
        /\ \A t \in DOMAIN tables \cup Range(reqs) :
               \E c \in chosen, g \in 1..Len(args.granularity) :
                   t = to_lowercase(args.catalog[c]) \o <<"_">>
                           \o args.granularity[g]
        /\ (/\ Filtered
            /\ args.tickers = Some(eur_usd)
            /\ args.catalog = <<EUR_USD, EUR_USD_SHORT, GBP_USD>>)
               => instruments = <<EUR_USD, EUR_USD_SHORT>>

\* C7's case: the run with whitelist eur_usd has synced EUR_USD_SHORT.
C7_Witness ==
    /\ pc = "done"
    /\ args.tickers = Some(eur_usd)
    /\ instruments = <<EUR_USD, EUR_USD_SHORT>>
    /\ table_name(EUR_USD_SHORT, <<"D">>) \in DOMAIN tables
    /\ tables[table_name(EUR_USD_SHORT, <<"D">>)] # <<>>

\* The tables of the pairs the loops have reached so far.
TablesSoFar ==
    { table_name(instruments[p[1]], args.granularity[p[2]]) :
        p \in { q \in (1..i) \X (1..Len(args.granularity)) :
                  q[1] < i \/ q[2] <= j } }

(* C8: a failure ends the run where it happens: the failing step commits   *)
(* and prints nothing, the completion line is never printed, no pair got   *)
(* more than one request, no pair after the failing one got a request, and *)
(* nothing happens afterwards but a new start of the program, which finds  *)
(* every table as the failed run left it.                                  *)
C8_FatalAbort ==
    /\ [](err # "" => pc = "aborted")
    /\ [](pc = "aborted" =>
             /\ tx = None
             /\ \A n \in 1..Len(out) : out[n].line # "Sync complete!"
             /\ Len(reqs) <= IF i = 0 THEN 0
                             ELSE (i - 1) * Len(args.granularity) + j
             /\ i >= 1 => Range(reqs) \subseteq TablesSoFar)
    /\ [][ (err = "" /\ err' # "") => (tables' = tables /\ out' = out) ]_vars
    /\ [][ pc = "aborted" =>
               (/\ pc' \in {"instruments", "aborted"}
                /\ reqs' = <<>>
                /\ tables' = tables) ]_vars

\* C8's case: the candle request of the first of two pairs failed; the
\* second pair got no request.
C8_Witness ==
    /\ pc = "aborted"
    /\ err = "fetch_candles"
    /\ i = 1 /\ j = 1
    /\ Len(instruments) * Len(args.granularity) = 2
    /\ reqs = <<table>>

\* No row holds a price other than the parsed prices of its candle: the
\* only prices of the model that parse are those of GoodMid.
NoSubstitutedPrice ==
    LET good(r) == r.open = 150 /\ r.high = 200 /\ r.low = 100 /\ r.close = 125
    IN  /\ \A t \in DOMAIN tables :
               \A n \in 1..Len(tables[t]) : good(tables[t][n])
        /\ tx # None => \A n \in 1..Len(tx[1]) : good(tx[1][n])

AllParse(mid) ==
    /\ ParseF64(mid.o).ok /\ ParseF64(mid.h).ok
    /\ ParseF64(mid.l).ok /\ ParseF64(mid.c).ok

(* C9 as stated: the insert loop never gets past a page in which some      *)
(* candle has a price that does not parse, and no row holds a substituted  *)
(* price.                                                                  *)
C9_AnyUnparseableIsFatal ==
    /\ pc \in {"trim", "commit"} =>
           \A n \in 1..Len(resp) : AllParse(resp[n].mid)
    /\ NoSubstitutedPrice

(* C9 amended: the insert loop never gets past a complete candle with a    *)
(* price that does not parse (the run panics there); an incomplete candle  *)
(* is skipped unparsed; no row holds a substituted price.                  *)
C9_CompleteUnparseableIsFatal ==
    /\ pc \in {"trim", "commit"} =>
           \A n \in 1..Len(resp) : resp[n].complete => AllParse(resp[n].mid)
    /\ pc = "insert" =>
           \A n \in 1..(k - 1) : resp[n].complete => AllParse(resp[n].mid)
    /\ err = "ParseFloatError" => pc = "aborted"
    /\ \A m \in BadMids : ~AllParse(m)
    /\ NoSubstitutedPrice

\* C9's case: the run panicked on a price that does not parse.
C9_Witness ==
    /\ pc = "aborted"
    /\ err = "ParseFloatError"

(* C10: the resume point of a pair is the greatest timestamp of its table  *)
(* when the query returns a row, and absent when the table is empty or the *)
(* query fails; the request carries exactly that resume point; and the     *)
(* lookup never ends the run.                                              *)
C10_ResumePointLookup ==
    /\ [](pc \in {"fetch", "await_candles", "begin", "insert", "trim",
                  "commit"} =>
            LET rows == tables[table]
            IN  /\ lookup # None
                /\ lookup[1].ok <=> (rows # <<>> /\ lookup[1].e # "SqliteFailure")
                /\ lookup[1].ok =>
                      /\ last_timestamp # None
                      /\ last_timestamp[1] \in Timestamps(rows)
                      /\ \A n \in 1..Len(rows) :
                             rows[n].timestamp <= last_timestamp[1]
                /\ ~lookup[1].ok => last_timestamp = None
                /\ pc # "fetch" => req[1].from = last_timestamp)
    /\ [][ pc = "lookup" => pc' = "fetch" ]_vars

\* C10's case: the query failed on a table with rows, and the request went
\* out without a lower bound.
C10_Witness ==
    /\ pc = "begin"
    /\ tables[table] # <<>>
    /\ lookup[1].e = "SqliteFailure"
    /\ req[1].from = None

\* A credential that neither the command line nor the environment supplies.
TokenMissing ==
    args.oanda_access_token = None /\ args.env.OANDA_ACCESS_TOKEN = None

AccountMissing ==
    args.oanda_account_id = None /\ args.env.OANDA_ACCOUNT_ID = None

(* C11: a run of an installation in which the token or the account         *)
(* identifier comes from neither the flag nor the environment ends in its  *)
(* first step: it sends no catalog and no candle request, and creates or   *)
(* changes no table.  Every request that is sent carries the flag's value  *)
(* when the flag is given, the environment's value otherwise.              *)
C11_MissingCredentialsFatal ==
    /\ []((TokenMissing \/ AccountMissing) =>
            /\ pc \in {"idle", "aborted"}
            /\ pc = "aborted" =>
                  err = IF TokenMissing THEN "OANDA_ACCESS_TOKEN not set"
                        ELSE "OANDA_ACCOUNT_ID not set"
            /\ http = <<>> /\ req = None /\ reqs = <<>>
            /\ instruments = <<>>
            /\ tables = << >>)
    /\ [](err \in {"OANDA_ACCESS_TOKEN not set", "OANDA_ACCOUNT_ID not set"}
            => (TokenMissing \/ AccountMissing))
    /\ [][ (TokenMissing \/ AccountMissing) => tables' = tables ]_vars
    /\ [](LET tok == IF args.oanda_access_token # None
                     THEN args.oanda_access_token[1]
                     ELSE args.env.OANDA_ACCESS_TOKEN[1]
              acc == IF args.oanda_account_id # None
                     THEN args.oanda_account_id[1]
                     ELSE args.env.OANDA_ACCOUNT_ID[1]
          IN  /\ \A n \in 1..Len(http) : http[n].bearer_auth = tok
              /\ pc = "await_instruments" =>
                     http = << [get |-> <<"accounts", acc, "instruments">>,
                                bearer_auth |-> tok] >>
              /\ req # None => req[1].bearer_auth = tok)

\* C11's case: the token is given by the flag, the account identifier by
\* nothing, and the run has ended at startup.
C11_Witness ==
    /\ pc = "aborted"
    /\ err = "OANDA_ACCOUNT_ID not set"
    /\ args.oanda_access_token # None
    /\ AccountMissing
    /\ http = <<>>

\* The appends the run has committed: one per pair before the pair at hand
\* (every pair, when the run is done).
Committed ==
    IF pc = "done" THEN Len(instruments) * Len(args.granularity)
    ELSE IF i = 0 THEN 0
    ELSE (i - 1) * Len(args.granularity) + (j - 1)

\* The count lines the run has printed.
Reported == Cardinality({ n \in 1..Len(out) : out[n].line = "Fetched" })

(* C12: the count line of a pair is printed after the append of the pair   *)
(* has committed, so no pair is reported whose candles were not persisted. *)
(* It is stated for the runs that end inside an append of a page with a    *)
(* complete candle, the case the claim's last clause is about: when such a *)
(* run has ended there are no more count lines than committed appends.     *)
C12_ReportAfterCommit ==
    [][ (/\ pc \in {"insert", "trim", "commit"}
         /\ pc' = "aborted"
         /\ \E n \in 1..Len(resp) : resp[n].complete)
            => Reported' <= Committed' ]_vars

----------------------------------------------------------------------------
(* Repeated runs against an upstream that keeps a fixed history and        *)
(* answers each request as asked, with no failure.                         *)

\* An upstream history: complete candles at the times 1..h.
History(h) ==
    [n \in 1..h |->
        [time |-> n, complete |-> TRUE, volume |-> 10 * n, mid |-> GoodMid]]

\* The answer of an upstream that honours the request: the candles of the
\* history after the lower bound (all of them without one), oldest first,
\* at most count of them.
HonestPage(history, request) ==
    LET after == SelectSeq(history,
                     LAMBDA c : request.from = None \/ c.time > request.from[1])
    IN  SubSeq(after, 1, Min2(Len(after), request.count))

\* The installations with both credentials, each with a history that every
\* instrument and granularity of its upstream has.
HonestInputs ==
    { [catalog |-> a.catalog, tickers |-> a.tickers,
       granularity |-> a.granularity,
       oanda_access_token |-> a.oanda_access_token,
       oanda_account_id |-> a.oanda_account_id, env |-> a.env,
       history |-> History(h)] :
        a \in { b \in ArgInputs :
                  /\ Credential(b.oanda_access_token,
                                b.env.OANDA_ACCESS_TOKEN) # None
                  /\ Credential(b.oanda_account_id,
                                b.env.OANDA_ACCOUNT_ID) # None },
        h \in 0..MaxTime }

InitConv ==
    /\ args \in HonestInputs
    /\ pc = "idle"
    /\ token = None
    /\ account_id = None
    /\ http = <<>>
    /\ instruments = <<>>
    /\ i = 0
    /\ j = 0
    /\ lookup = None
    /\ last_timestamp = None
    /\ req = None
    /\ resp = <<>>
    /\ k = 0
    /\ tx = None
    /\ tables = << >>
    /\ out = <<>>
    /\ reqs = <<>>
    /\ err = ""
    /\ snapshot = None

\* main.rs:187-191 when the query does not fail.
LookupNoFail == Lookup /\ lookup'[1].e # "SqliteFailure"

\* main.rs:193-195 when the upstream answers the request as asked.
FetchHonest == Fetch /\ resp' = HonestPage(args.history, req[1])

NextConv ==
    \/ StartRun
    \/ SendInstruments
    \/ FetchInstruments
    \/ setup_table
    \/ LookupNoFail
    \/ SendCandles
    \/ FetchHonest
    \/ BeginTx
    \/ InsertCandle
    \/ Trim
    \/ Commit

\* Every step that can be taken is taken in the end: no call hangs, and the
\* program is started again after each run.
SpecConv == InitConv /\ [][NextConv]_vars /\ WF_vars(NextConv)

\* The rows of the newest min(H, MAX_CANDLES) candles of the history.
TargetRows ==
    LET H == Len(args.history)
    IN  { RowOf(args.history[n]) :
            n \in { m \in 1..H : m > H - MAX_CANDLES } }

\* Every table of the installation holds exactly the target rows, once each.
Converged ==
    LET insts == Selected(args.catalog, Whitelist(args.tickers))
    IN  \A a \in 1..Len(insts), b \in 1..Len(args.granularity) :
            LET t == table_name(insts[a], args.granularity[b])
            IN  /\ t \in DOMAIN tables
                /\ Range(tables[t]) = TargetRows
                /\ Len(tables[t]) = Cardinality(TargetRows)

C14_SinglePage ==
    /\ [](req # None => req[1].count = PageSize)
    /\ [](pc \in {"setup", "lookup", "fetch", "done"} => Len(reqs) = Committed)
    /\ [](pc \in {"await_candles", "begin", "insert", "trim", "commit"} =>
            /\ Len(reqs) = Committed + 1
            /\ reqs[Len(reqs)] = table
            /\ Len(resp) <= PageSize
            /\ tx # None => Len(tx[1]) <= Len(tables[table]) + Len(resp))
    /\ [][ reqs' # reqs =>
             \/ pc = "fetch" /\ reqs' = Append(reqs, table)
             \/ pc \in {"idle", "done", "aborted"} /\ reqs' = <<>> ]_vars
    /\ [][ CommitStep =>
             Len(tables'[table]) <= Len(tables[table]) + PageSize ]_vars

\* C14's case: a sync whose request returned a full page is about to commit
\* it, after its single request.
C14_Witness ==
    /\ pc = "commit"
    /\ Len(resp) = PageSize
    /\ Len(tx[1]) = Len(tables[table]) + PageSize
    /\ reqs = <<table>>

(* C15: at most one HTTP request is pending and at most one transaction is *)
(* open, never both at once; a pending request is the one main() awaits;   *)
(* and the loops reach a pair only from the commit of the pair before it   *)
(* in instrument-major, granularity-minor order (the first pair from the   *)
(* arrival of the catalog), with nothing pending or open.                  *)
C15_Sequential ==
    /\ [](/\ Len(http) <= 1
          /\ ~(http # <<>> /\ tx # None)
          /\ http # <<>> <=> pc \in {"await_instruments", "await_candles"}
          /\ pc = "await_candles" => http = <<req[1]>>
          /\ tx # None <=> pc \in {"insert", "trim", "commit"}
          /\ pc = "setup" => (http = <<>> /\ tx = None))
    /\ [][ (pc' = "setup" /\ pc # "setup") =>
             \/ /\ pc = "await_instruments"
                /\ i' = 1 /\ j' = 1
             \/ /\ CommitStep
                /\ tables'[table] = tx[1]
                /\ tx' = None
                /\ IF j < Len(args.granularity)
                   THEN i' = i /\ j' = j + 1
                   ELSE i' = i + 1 /\ j' = 1 ]_vars
    /\ [][ <<i, j>>' # <<i, j>> =>
             \/ pc' \in {"setup", "done"}
             \/ pc \in {"idle", "done", "aborted"} ]_vars

\* C15's case: the second pair of a run is under way: its request is
\* pending, and the transaction of the first pair is closed.
C15_Witness ==
    /\ pc = "await_candles"
    /\ Committed = 1
    /\ Len(http) = 1
    /\ tx = None
    /\ tables[reqs[1]] # <<>>

(* C16: a table comes into being only in the ensure-table step of its own  *)
(* pair, empty, when the database does not hold it yet; that step leaves   *)
(* every table that exists, the pair's own included, with its rows; and no *)
(* step of any run, failing ones included, removes a table.                *)
C16_TableLifecycle ==
    [][ /\ DOMAIN tables \subseteq DOMAIN tables'
        /\ DOMAIN tables' # DOMAIN tables =>
              /\ pc = "setup"
              /\ pc' = "lookup"
              /\ table \notin DOMAIN tables
              /\ DOMAIN tables' = DOMAIN tables \cup {table}
              /\ tables'[table] = <<>>
        /\ pc = "setup" => \A t \in DOMAIN tables : tables'[t] = tables[t]
        /\ pc # "setup" => DOMAIN tables' = DOMAIN tables
      ]_vars

\* C16's case: a later run has gone through the ensure-table step of a
\* pair whose table held rows, and the rows are there.
C16_Witness ==
    /\ pc = "lookup"
    /\ tables[table] # <<>>

\* sub is seq with some of its elements left out.
IsSubSeq(sub, seq) ==
    \E keep \in SUBSET (1..Len(seq)) :
        /\ Cardinality(keep) = Len(sub)
        /\ sub = RowsAt(seq, keep, 1)

(* C17: the sync of a pair reads and changes only the table of that pair:  *)
(* its lookup and its transaction start from the rows of that table, and a *)
(* step changes the rows of a table only as the commit of that table's own *)
(* pair.  What the commit leaves is the old rows followed by the new ones  *)
(* with some rows left out, each remaining row with the values it had, and *)
(* rows are left out only when the table would exceed MAX_CANDLES rows.    *)
C17_Frame ==
    /\ [](pc \in {"fetch", "await_candles", "begin", "insert", "trim",
                  "commit"} =>
             lookup[1] \in { QueryRow(tables[table], f) : f \in BOOLEAN })
    /\ [](pc = "insert" =>
             SubSeq(tx[1], 1, Len(tables[table])) = tables[table])
    /\ [][ \A t \in DOMAIN tables :
               tables'[t] # tables[t] =>
                   /\ CommitStep
                   /\ t = table
                   /\ IsSubSeq(tables'[t], BeforeTrim)
                   /\ Len(BeforeTrim) <= MAX_CANDLES => tables'[t] = BeforeTrim
         ]_vars

\* C17's case: the second pair of a run is committing new rows while the
\* table of the first pair holds rows.
C17_Witness ==
    /\ pc = "commit"
    /\ Committed = 1
    /\ reqs[1] # table
    /\ tables[reqs[1]] # <<>>
    /\ tx[1] # tables[table]

\* The retention DELETE of an append is applied to its transaction.
TrimStep == pc = "trim" /\ pc' = "commit"

\* No step takes the greatest timestamp of a table down, or empties a table
\* that holds rows.
MaxNeverDecreases ==
    \A t \in DOMAIN tables :
        tables[t] # <<>> =>
            /\ tables'[t] # <<>>
            /\ Max(Timestamps(tables'[t])) >= Max(Timestamps(tables[t]))

C19_OncePerRun ==
    /\ \A a, b \in 1..Len(instruments) :
           a # b => instruments[a] # instruments[b]
    /\ \A a, b \in 1..Len(reqs) : a # b => reqs[a] # reqs[b]

=============================================================================
